---------------------------- MODULE Spec2Model ----------------------------
(***************************************************************************)
(* Model of klippy/extras/pla_sear.py: the PLA_SensorArray serial driver.  *)
(*                                                                         *)
(* The driver is a set of callbacks run one at a time by the host reactor: *)
(* the Poll Driver (_sample_PLA_SEAR), the Read Pump (_run_Read), the      *)
(* Write Pump (_run_Write) and the three host notifications                *)
(* (klippy:connect / disconnect / shutdown).  Each callback is one action; *)
(* the Read Pump yields at the back edge of its `while True` loop, where   *)
(* it asks the device again, and no other callback runs until it returns.  *)
(*                                                                         *)
(* Text is a sequence of one-character strings; bytes are a sequence of    *)
(* byte tokens ("C3" "A9" is the UTF-8 encoding of one non-ASCII           *)
(* character).  Time is counted in units of 0.1 s.                         *)
(***************************************************************************)
EXTENDS Integers, Sequences, FiniteSets, TLC

VARIABLES
    serial,          \* self.serial: 0 is None, n > 0 the n-th handle opened
    read_timer,      \* self.read_timer: "None" or "timer"
    write_timer,     \* self.write_timer: "None" or "timer"
    read_buffer,     \* self.read_buffer: text
    read_queue,      \* self.read_queue: sequence of lines
    write_queue,     \* self.write_queue: sequence of [msg, id]
    failed,          \* self._failed_connection_attempts
    reactor_timers,  \* the reactor's registry: how many read / write timers
    sample_wake,     \* the reactor's waketime of sample_timer: "armed" / "NEVER"
    pc,              \* "idle", or "read_loop" inside _run_Read's while loop
    pending,         \* bytes the device has sent and the driver has not read
    raised,          \* an exception escaped a callback (the reactor stops)
    wire,            \* history: every serial.write that succeeded, in order
    discarded,       \* history: ids left in the queue by a failed write
    console,         \* history: lines given to gcode.respond_info
    shutdowns,       \* history: reasons given to printer.invoke_shutdown
    nextId,          \* history: tag of the next Outbound Queue entry
    opens,           \* history: how many serial handles were opened
    floods,          \* history: how many floods the device sent
    stream,          \* history: the byte stream of the framer specification
    last_debug_timestamp,  \* self.last_debug_timestamp
    last_debug_message,    \* self.last_debug_message: text
    last             \* history: what the last callback did and returned

vars == << serial, read_timer, write_timer, read_buffer, read_queue,
           write_queue, failed, reactor_timers, sample_wake, pc, pending,
           raised, wire, discarded, console, shutdowns, nextId, opens, floods,
           stream, last_debug_timestamp, last_debug_message, last >>

----------------------------------------------------------------------------
(* Program constants *)

\* SERIAL_TIMER = 0.1, in units of 0.1 s
SERIAL_TIMER == 1

\* `if self._failed_connection_attempts < 5`
FailureThreshold == 5

\* `if len(raw_bytes)>1000`
ReadCeiling == 1000

LostMessage == "Connection to SensorArray lost and could not be reestablished!"

OverflowMessage == "Buffer to large."

\* disconnect(self, disconnect_message="d")
DisconnectMessage == "d"

\* self.write_queue.append("read")
ReadToken == "read"

----------------------------------------------------------------------------
(* Bounds of the model *)

\* entries ever appended to the Outbound Queue
MaxIds == 4

\* serial handles ever opened
MaxOpens == 2

\* cap of the failure counter (the on-connect notification can push it on)
MaxFailed == 6

\* bytes the device holds unread, when it sends byte by byte
MaxPending == 2

\* length of the Read Buffer kept between reads, floods apart
MaxBuf == 2

\* lines ever forwarded to the console
MaxConsole == 2

\* floods (reads of about ReadCeiling bytes) the device ever sends
MaxFloods == 1

\* eventtime values handed to a callback: 0..MaxTime
MaxTime == 1

\* length of the byte stream of the framer specification
MaxStream == 4

\* longest partial read of the pending bytes (a read may also take them all)
MaxChunkLen == 2

\* length of the Outbound Queue the pumps specification starts with
MaxQueue == 2

----------------------------------------------------------------------------
(* Text: bytes.decode(), str.find, str.strip, str.rstrip *)

\* the ASCII bytes of the model; each decodes to the character of the same name
Ascii == {"a", " ", "\r", "\n"}

\* the bytes of the model: ASCII, and the two bytes of one UTF-8 character
Bytes == Ascii \cup {"C3", "A9"}

\* what str.strip() removes at both ends
Whitespace == {" ", "\r", "\n"}

\* bytes.decode() succeeds: every lead byte has its continuation byte and
\* every continuation byte its lead byte (else UnicodeDecodeError)
CanDecode(bs) ==
    \A i \in 1..Len(bs) :
        \/ bs[i] \in Ascii
        \/ bs[i] = "C3" /\ i < Len(bs) /\ bs[i + 1] = "A9"
        \/ bs[i] = "A9" /\ i > 1 /\ bs[i - 1] = "C3"

DecodeLead(b) == IF b = "C3" THEN "U+00E9" ELSE b

NotContinuation(b) == b # "A9"

\* bytes.decode() of bytes that decode: one character per ASCII byte, one
\* per two-byte sequence
decode(bs) ==
    LET leads == SelectSeq(bs, NotContinuation)
    IN  [i \in 1..Len(leads) |-> DecodeLead(leads[i])]

IsCRLF(t, i) == t[i] = "\r" /\ t[i + 1] = "\n"

\* text_buffer.find("\r\n"): the 0-based index of the first match, or -1
find(t) ==
    IF \E i \in 1..(Len(t) - 1) : IsCRLF(t, i)
    THEN (CHOOSE i \in 1..(Len(t) - 1) :
              IsCRLF(t, i) /\ \A j \in 1..(i - 1) : ~IsCRLF(t, j)) - 1
    ELSE -1

\* Python's t[lo:hi] for 0 <= lo, hi (0-based, hi exclusive)
Slice(t, lo, hi) ==
    LET h == IF hi > Len(t) THEN Len(t) ELSE hi
    IN  IF lo >= h THEN << >> ELSE SubSeq(t, lo + 1, h)

\* line.strip(), of a text that is a value
StripOf(t) ==
    IF \A i \in 1..Len(t) : t[i] \in Whitespace
    THEN << >>
    ELSE LET lo == CHOOSE i \in 1..Len(t) :
                       t[i] \notin Whitespace
                       /\ \A j \in 1..(i - 1) : t[j] \in Whitespace
             hi == CHOOSE i \in 1..Len(t) :
                       t[i] \notin Whitespace
                       /\ \A j \in (i + 1)..Len(t) : t[j] \in Whitespace
         IN  SubSeq(t, lo, hi)

\* line.strip(): the text is evaluated once, then stripped
strip(t) == CHOOSE s \in {StripOf(v) : v \in {t}} : TRUE

\* text_line.rstrip("\x00"): the NUL character is the token "NUL"
rstrip_nul(t) ==
    IF \A i \in 1..Len(t) : t[i] = "NUL"
    THEN << >>
    ELSE LET hi == CHOOSE i \in 1..Len(t) :
                       t[i] # "NUL" /\ \A j \in (i + 1)..Len(t) : t[j] = "NUL"
         IN  SubSeq(t, 1, hi)

\* the inner `while True` of _run_Read: split text_buffer at every "\r\n"
RECURSIVE Framer(_, _)
Framer(text_buffer, queue) ==
    LET i == find(text_buffer)
    IN  IF i >= 0
        THEN Framer(Slice(text_buffer, i + 1, Len(text_buffer)),
                    Append(queue, strip(Slice(text_buffer, 0, i + 1))))
        ELSE [read_buffer |-> text_buffer, read_queue |-> queue]

----------------------------------------------------------------------------
(* Return values of a callback, and the record of the last callback *)

At(t) == [kind |-> "at", time |-> t]

\* self.reactor.NEVER
NEVER == [kind |-> "never", time |-> 0]

\* a host notification returns nothing; a callback that raised neither
NoReturn == [kind |-> "none", time |-> 0]

Times == 0..MaxTime

\* the host notifications that call disconnect() and nothing else
DisconnectOps == {"disconnect", "shutdown"}

\* op: the callback; evt: its eventtime; ret: what it returned; open / close:
\* how serial.Serial(...) / serial.close() ended in it ("none": not called);
\* again: it is a disconnect() that follows a disconnect() directly
Last(op, evt, ret, open, close) ==
    [op |-> op, evt |-> evt, ret |-> ret, open |-> open, close |-> close,
     again |-> op \in DisconnectOps /\ last.op \in DisconnectOps]

\* an Outbound Queue entry: the string, its tag, and the handle the driver
\* held when it was appended (0: appended while Disconnected)
Entry(msg) == [msg |-> msg, id |-> nextId, enq |-> serial]

----------------------------------------------------------------------------
(* __init__ *)

Init ==
    /\ serial = 0
    /\ read_timer = "None"
    /\ write_timer = "None"
    /\ read_buffer = << >>
    /\ read_queue = << >>
    /\ write_queue = << >>
    /\ failed = 0
    /\ reactor_timers = [read |-> 0, write |-> 0]
    /\ sample_wake = "armed"
    /\ pc = "idle"
    /\ pending = << >>
    /\ raised = FALSE
    /\ wire = << >>
    /\ discarded = {}
    /\ console = << >>
    /\ shutdowns = << >>
    /\ nextId = 1
    /\ opens = 0
    /\ floods = 0
    /\ stream = << >>
    /\ last_debug_timestamp = 0
    /\ last_debug_message = << >>
    /\ last = [op |-> "init", evt |-> 0, ret |-> NoReturn, open |-> "none",
               close |-> "none", again |-> FALSE]

\* the reactor runs a callback: none is running and none has raised
Idle == pc = "idle" /\ ~raised

\* the reactor calls a pump while the pump's timer is in its registry: an
\* unregistered timer is not called again, whatever its callback returns
PumpRegistered(kind) == reactor_timers[kind] > 0

----------------------------------------------------------------------------
(* disconnect *)

\* how serial.close() ends in disconnect: AttributeError when self.serial is
\* None, else the port closes or close() raises
CloseResult(close_raises) ==
    IF serial = 0 THEN "no_handle"
    ELSE IF close_raises THEN "raised" ELSE "ok"

\* a disconnect that leaves the timer in the reactor's registry
NotUnregistered(timer, count) == count

\* unregistering without regard to the timer being None
UnregisteredBlindly(timer, count) == count - 1

\* reactor.unregister_timer(timer): removes the timer; raises on None, which
\* disconnect swallows
Unregistered(timer, count) == IF timer = "None" THEN count ELSE count - 1

\* disconnect() with no try around serial.close(): its exception escapes
disconnect_unguarded(wq, close_raises) ==
    /\ write_queue' = Append(wq, Entry(DisconnectMessage))
    /\ nextId' = nextId + 1
    /\ IF CloseResult(close_raises) = "ok"
       THEN /\ serial' = 0
            /\ reactor_timers' =
                   [read |-> Unregistered(read_timer, reactor_timers.read),
                    write |-> Unregistered(write_timer, reactor_timers.write)]
            /\ read_timer' = "None"
            /\ write_timer' = "None"
            /\ pending' = << >>
            /\ UNCHANGED raised
       ELSE /\ raised' = TRUE
            /\ UNCHANGED << serial, reactor_timers, read_timer, write_timer,
                            pending >>
    /\ UNCHANGED << failed, opens >>

\* a disconnect() that counts as a failed connection attempt
disconnect_counts_failure(wq, close_raises) ==
    /\ write_queue' = Append(wq, Entry(DisconnectMessage))
    /\ nextId' = nextId + 1
    /\ serial' = 0
    /\ reactor_timers' =
           [read |-> Unregistered(read_timer, reactor_timers.read),
            write |-> Unregistered(write_timer, reactor_timers.write)]
    /\ read_timer' = "None"
    /\ write_timer' = "None"
    /\ pending' = << >>
    /\ failed' = failed + 1
    /\ UNCHANGED << opens, raised >>

\* disconnect(), called with the Outbound Queue being wq.  Both outcomes of
\* serial.close() are swallowed and leave the same state
disconnect(wq, close_raises) ==
    /\ write_queue' = Append(wq, Entry(DisconnectMessage))
    /\ nextId' = nextId + 1
    /\ serial' = 0
    /\ reactor_timers' =
           [read |-> Unregistered(read_timer, reactor_timers.read),
            write |-> Unregistered(write_timer, reactor_timers.write)]
    /\ read_timer' = "None"
    /\ write_timer' = "None"
    /\ pending' = << >>
    /\ UNCHANGED << failed, opens, raised >>

\* _handle_disconnect: the host's klippy:disconnect notification
HandleDisconnect(close_raises) ==
    /\ Idle
    /\ nextId <= MaxIds
    /\ disconnect(write_queue, close_raises)
    /\ last' = Last("disconnect", 0, NoReturn, "none",
                    CloseResult(close_raises))
    /\ UNCHANGED << read_buffer, read_queue, sample_wake, pc, wire,
                    discarded, console, shutdowns, floods, stream,
                    last_debug_timestamp, last_debug_message >>

\* _handle_shutdown: the host's klippy:shutdown notification
HandleShutdown(close_raises) ==
    /\ Idle
    /\ nextId <= MaxIds
    /\ disconnect(write_queue, close_raises)
    /\ last' = Last("shutdown", 0, NoReturn, "none",
                    CloseResult(close_raises))
    /\ UNCHANGED << read_buffer, read_queue, sample_wake, pc, wire,
                    discarded, console, shutdowns, floods, stream,
                    last_debug_timestamp, last_debug_message >>

----------------------------------------------------------------------------
(* connect *)

\* _init_PLA_SEAR that leaves the Outbound Queue as it is
init_keeps_write_queue(open_ok) ==
    IF open_ok
    THEN /\ serial' = opens + 1
         /\ opens' = opens + 1
         /\ failed' = 0
         /\ read_queue' = << >>
         /\ read_timer' = "timer"
         /\ write_timer' = "timer"
         /\ reactor_timers' = [read |-> reactor_timers.read + 1,
                               write |-> reactor_timers.write + 1]
         /\ pending' = << >>
         /\ UNCHANGED write_queue
    ELSE /\ failed' = failed + 1
         /\ UNCHANGED << serial, opens, write_queue, read_queue, read_timer,
                         write_timer, reactor_timers, pending >>

\* _init_PLA_SEAR without `self._failed_connection_attempts = 0`
init_keeps_counter(open_ok) ==
    IF open_ok
    THEN /\ serial' = opens + 1
         /\ opens' = opens + 1
         /\ write_queue' = << >>
         /\ read_queue' = << >>
         /\ read_timer' = "timer"
         /\ write_timer' = "timer"
         /\ reactor_timers' = [read |-> reactor_timers.read + 1,
                               write |-> reactor_timers.write + 1]
         /\ pending' = << >>
         /\ UNCHANGED failed
    ELSE /\ failed' = failed + 1
         /\ UNCHANGED << serial, opens, write_queue, read_queue, read_timer,
                         write_timer, reactor_timers, pending >>

\* _init_PLA_SEAR: open the port; on success reset the counter, clear both
\* queues and register the pumps; on failure count the attempt
init_PLA_SEAR(open_ok) ==
    IF open_ok
    THEN /\ serial' = opens + 1
         /\ opens' = opens + 1
         /\ failed' = 0
         /\ write_queue' = << >>
         /\ read_queue' = << >>
         /\ read_timer' = "timer"
         /\ write_timer' = "timer"
         /\ reactor_timers' = [read |-> reactor_timers.read + 1,
                               write |-> reactor_timers.write + 1]
         /\ pending' = << >>
    ELSE /\ failed' = failed + 1
         /\ UNCHANGED << serial, opens, write_queue, read_queue, read_timer,
                         write_timer, reactor_timers, pending >>

\* the model's caps on an open attempt
OpenAllowed(open_ok) ==
    IF open_ok THEN opens < MaxOpens ELSE failed < MaxFailed

\* _handle_connect without its test of self.serial
handle_connect_unchecked(open_ok) ==
    OpenAllowed(open_ok) /\ init_PLA_SEAR(open_ok)

\* _handle_connect: `if self.serial is None: self._init_PLA_SEAR()`
handle_connect(open_ok) ==
    IF serial = 0
    THEN OpenAllowed(open_ok) /\ init_PLA_SEAR(open_ok)
    ELSE UNCHANGED << serial, opens, failed, write_queue, read_queue,
                      read_timer, write_timer, reactor_timers, pending >>

OpenResult(open_ok) ==
    IF serial # 0 THEN "none" ELSE IF open_ok THEN "ok" ELSE "failed"

\* the host's klippy:connect notification
HandleConnect(open_ok) ==
    /\ Idle
    /\ handle_connect(open_ok)
    /\ last' = Last("connect", 0, NoReturn, OpenResult(open_ok), "none")
    /\ UNCHANGED << read_buffer, nextId, sample_wake, pc, raised, wire,
                    discarded, console, shutdowns, floods, stream,
                    last_debug_timestamp, last_debug_message >>

----------------------------------------------------------------------------
(* Poll Driver *)

\* the reactor calls a timer's callback while the timer is armed, and never
\* again once the callback has returned NEVER
SampleArmed == sample_wake = "armed"

\* the threshold taken one too low
MayRetryOneLess(n) == n < FailureThreshold - 1

\* `if self._failed_connection_attempts < 5`
MayRetry(n) == n < FailureThreshold

\* what _sample_PLA_SEAR(eventtime) returns
SampleReturn(eventtime) ==
    IF MayRetry(failed) THEN At(eventtime + SERIAL_TIMER) ELSE NEVER

\* _sample_PLA_SEAR(eventtime), called by the reactor while SampleArmed
SamplePLA(eventtime, open_ok) ==
    /\ Idle
    /\ SampleArmed
    /\ IF MayRetry(failed)
       THEN /\ IF serial = 0
               THEN /\ handle_connect(open_ok)
                    /\ UNCHANGED nextId
               ELSE /\ nextId <= MaxIds
                    /\ write_queue' = Append(write_queue, Entry(ReadToken))
                    /\ nextId' = nextId + 1
                    /\ UNCHANGED << serial, opens, failed, read_queue,
                                    read_timer, write_timer, reactor_timers,
                                    pending >>
            /\ last' = Last("sample", eventtime, SampleReturn(eventtime),
                            OpenResult(open_ok), "none")
            /\ UNCHANGED << sample_wake, shutdowns >>
       ELSE /\ shutdowns' = Append(shutdowns, LostMessage)
            /\ sample_wake' = "NEVER"
            /\ last' = Last("sample", eventtime, SampleReturn(eventtime),
                            "none", "none")
            /\ UNCHANGED << serial, opens, failed, write_queue, read_queue,
                            read_timer, write_timer, reactor_timers, pending,
                            nextId >>
    /\ UNCHANGED << read_buffer, pc, raised, wire, discarded, console,
                    floods, stream,
                    last_debug_timestamp, last_debug_message >>

----------------------------------------------------------------------------
(* Write Pump *)

\* serial.write raises: always on None (AttributeError), else when the
\* device fails at the queue position fail_at
WriteRaises(pos, fail_at) == serial = 0 \/ pos = fail_at

\* a Write Pump that takes one entry per invocation
DrainOne(q, sent, pos, fail_at) ==
    IF Len(q) = 0
    THEN [queue |-> q, sent |-> sent, error |-> FALSE]
    ELSE LET text_line == Head(q)
         IN  IF text_line.msg # ""
             THEN IF WriteRaises(pos, fail_at)
                  THEN [queue |-> Tail(q), sent |-> sent, error |-> TRUE]
                  ELSE [queue |-> Tail(q), sent |-> Append(sent, text_line),
                        error |-> FALSE]
             ELSE [queue |-> Tail(q), sent |-> sent, error |-> FALSE]

\* the `while not len(self.write_queue) == 0` loop of _run_Write.  q: the
\* queue; sent: the entries written so far; pos: the position q's head had
\* in the queue at entry
RECURSIVE Drain(_, _, _, _)
Drain(q, sent, pos, fail_at) ==
    IF Len(q) = 0
    THEN [queue |-> q, sent |-> sent, error |-> FALSE]
    ELSE LET text_line == Head(q)
         IN  IF text_line.msg # ""
             THEN IF WriteRaises(pos, fail_at)
                  THEN [queue |-> Tail(q), sent |-> sent, error |-> TRUE]
                  ELSE Drain(Tail(q), Append(sent, text_line), pos + 1,
                             fail_at)
             ELSE Drain(Tail(q), sent, pos + 1, fail_at)

\* the record of a successful serial.write: the entry, and the handle it
\* was written to
OnWire(sent) ==
    [i \in 1..Len(sent) |->
        [msg |-> sent[i].msg, id |-> sent[i].id, enq |-> sent[i].enq,
         conn |-> serial]]

Ids(q) == {q[i].id : i \in 1..Len(q)}

\* _run_Write(eventtime)
RunWrite(eventtime, fail_at, close_raises) ==
    /\ Idle
    /\ PumpRegistered("write")
    /\ LET r == Drain(write_queue, << >>, 1, fail_at)
       IN  /\ wire' = wire \o OnWire(r.sent)
           /\ IF r.error
              THEN /\ nextId <= MaxIds
                   /\ disconnect(r.queue, close_raises)
                   /\ discarded' = discarded \cup Ids(write_queue')
                   /\ last' = Last("write", eventtime,
                                   At(eventtime + SERIAL_TIMER), "none",
                                   CloseResult(close_raises))
              ELSE /\ write_queue' = r.queue
                   /\ last' = Last("write", eventtime,
                                   At(eventtime + SERIAL_TIMER), "none",
                                   "none")
                   /\ UNCHANGED << nextId, serial, reactor_timers,
                                   read_timer, write_timer, pending, failed,
                                   opens, discarded, raised >>
    /\ UNCHANGED << read_buffer, read_queue, sample_wake, pc, console,
                    shutdowns, floods, stream,
                    last_debug_timestamp, last_debug_message >>

\* what other components append to the Outbound Queue
ExternalMessages == {"CAL", ""}

\* what the Outbound Queue can hold while Connected
QueuedMessages == ExternalMessages \cup {ReadToken}

\* a caller requesting a write: self.write_queue.append(msg)
Enqueue(msg) ==
    /\ Idle
    /\ nextId <= MaxIds
    /\ write_queue' = Append(write_queue, Entry(msg))
    /\ nextId' = nextId + 1
    /\ last' = Last("enqueue", 0, NoReturn, "none", "none")
    /\ UNCHANGED << serial, read_timer, write_timer, read_buffer, read_queue,
                    failed, reactor_timers, sample_wake, pc, pending, raised,
                    wire, discarded, console, shutdowns, opens, floods,
                    stream,
                    last_debug_timestamp, last_debug_message >>

----------------------------------------------------------------------------
(* Read Pump *)

\* _process_read_queue: pop every line and give it to gcode.respond_info
process_read_queue(queue) ==
    /\ console' = console \o [i \in 1..Len(queue) |-> rstrip_nul(queue[i])]
    /\ read_queue' = << >>

\* the sizes serial.read() can return of the bytes waiting: a part of them
\* or all of them; a flood comes in one read
ReadSizes(waiting) ==
    IF Len(waiting) >= ReadCeiling
    THEN {Len(waiting)}
    ELSE {k \in 1..Len(waiting) : k <= MaxChunkLen \/ k = Len(waiting)}

\* the sizes to choose from in the current state (0: nothing is waiting)
SizeChoices == IF Len(pending) = 0 THEN {0} ELSE ReadSizes(pending)

\* self.reactor.monotonic() inside a callback: the reactor's clock, which has
\* not moved on by a whole unit since the reactor read it as eventtime
monotonic(eventtime) == eventtime

\* get_status(eventtime)
get_status ==
    [last_debug_timestamp |-> last_debug_timestamp,
     last_debug_message |-> last_debug_message]

\* a pass that ends without leaving the loop
ReadNoBreak(eventtime, queue, close) ==
    /\ read_queue' = queue
    /\ pc' = "read_loop"
    /\ last' = Last("read", eventtime, NoReturn, "none", close)
    /\ UNCHANGED << console, last_debug_timestamp >>

\* the statements of _run_Read after its loop
ReadEpilogue(eventtime, queue, close) ==
    /\ last_debug_timestamp' = monotonic(eventtime)
    /\ process_read_queue(queue)
    /\ pc' = "idle"
    /\ last' = Last("read", eventtime, At(eventtime + SERIAL_TIMER), "none",
                    close)

\* `if len(raw_bytes)>1000`
Overflows(raw_bytes) == Len(raw_bytes) > ReadCeiling

\* one pass of the `while True` loop of _run_Read, and what follows the loop
\* when the pass leaves it.  io_error: in_waiting or read() raises; size:
\* how many of the waiting bytes read() returns
ReadPass(eventtime, io_error, size, close_raises) ==
    IF serial = 0 \/ io_error
    THEN \* except Exception: self.disconnect(); break
         /\ nextId <= MaxIds
         /\ disconnect(write_queue, close_raises)
         /\ ReadEpilogue(eventtime, read_queue, CloseResult(close_raises))
         /\ UNCHANGED << read_buffer, shutdowns >>
    ELSE IF Len(pending) = 0
    THEN \* in_waiting is 0: raw_bytes stays empty; break
         /\ ReadEpilogue(eventtime, read_queue, "none")
         /\ UNCHANGED << read_buffer, raised, shutdowns, write_queue, nextId,
                         serial, reactor_timers, read_timer, write_timer,
                         pending, failed, opens >>
    ELSE \* raw_bytes = self.serial.read()
         /\ size \in ReadSizes(pending)
         /\ \E raw_bytes \in {SubSeq(pending, 1, size)} :
             /\ pending' = SubSeq(pending, size + 1, Len(pending))
             /\ UNCHANGED << write_queue, nextId, serial, reactor_timers,
                             read_timer, write_timer, failed, opens >>
             /\ IF ~CanDecode(raw_bytes)
                THEN \* raw_bytes.decode() raises outside the try block
                     /\ raised' = TRUE
                     /\ pc' = "idle"
                     /\ last' = Last("read", eventtime, NoReturn, "none",
                                     "none")
                     /\ UNCHANGED << read_buffer, read_queue, console,
                                     shutdowns, last_debug_timestamp >>
                ELSE \* text_buffer = self.read_buffer + raw_bytes.decode()
                     \E text_buffer \in {read_buffer \o decode(raw_bytes)} :
                     \E r \in {Framer(text_buffer, read_queue)} :
                         /\ read_buffer' = r.read_buffer
                         /\ UNCHANGED raised
                         /\ IF Overflows(raw_bytes)
                            THEN \* invoke_shutdown, and round the loop again
                                 /\ shutdowns' =
                                        Append(shutdowns, OverflowMessage)
                                 /\ read_queue' = r.read_queue
                                 /\ pc' = "read_loop"
                                 /\ last' = Last("read", eventtime, NoReturn,
                                                 "none", "none")
                                 /\ UNCHANGED << console,
                                                 last_debug_timestamp >>
                            ELSE /\ ReadEpilogue(eventtime, r.read_queue,
                                                 "none")
                                 /\ UNCHANGED shutdowns

\* the model's caps on what a read leaves behind: only the read of a flood
\* makes the Read Buffer longer than MaxBuf
ReadAllowed ==
    /\ Len(console') + Len(read_queue') <= MaxConsole
    /\ \/ Len(read_buffer') <= MaxBuf
       \/ Len(read_buffer') <= Len(read_buffer)
       \/ Len(pending) - Len(pending') >= ReadCeiling

\* _run_Read(eventtime): entered by the reactor
RunRead(eventtime, io_error, size, close_raises) ==
    /\ Idle
    /\ PumpRegistered("read")
    /\ ReadPass(eventtime, io_error, size, close_raises)
    /\ UNCHANGED << sample_wake, wire, discarded, floods, stream,
                    last_debug_message >>

\* _run_Read: the next pass of its loop, after a read above the ceiling
ReadLoop(io_error, size, close_raises) ==
    /\ pc = "read_loop"
    /\ ~raised
    /\ ReadPass(last.evt, io_error, size, close_raises)
    /\ UNCHANGED << sample_wake, wire, discarded, floods, stream,
                    last_debug_message >>

----------------------------------------------------------------------------
(* The device *)

\* what the device sends byte by byte: text, and a byte that is no UTF-8
DeviceBytes == {"a", "\r", "\n", "A9"}

\* the device sends one byte; the open port buffers it.  The device is no
\* callback: it sends between callbacks and while one runs
DeviceSend(b) ==
    /\ ~raised
    /\ serial # 0
    /\ Len(pending) < MaxPending
    /\ pending' = Append(pending, b)
    /\ UNCHANGED << serial, read_timer, write_timer, read_buffer, read_queue,
                    write_queue, failed, reactor_timers, sample_wake, pc,
                    raised, wire, discarded, console, shutdowns, nextId,
                    opens, floods, stream, last,
                    last_debug_timestamp, last_debug_message >>

\* n bytes without a terminator; with one; ending in half a character;
\* blanks ending in a terminator
Flood(n, kind) ==
    [i \in 1..n |->
        IF kind = "lines" /\ i = 2 THEN "\r"
        ELSE IF kind = "lines" /\ i = 3 THEN "\n"
        ELSE IF kind = "bad" /\ i = n THEN "C3"
        ELSE IF kind = "blank" /\ i = n - 1 THEN "\r"
        ELSE IF kind = "blank" /\ i = n THEN "\n"
        ELSE IF kind = "blank" THEN " "
        ELSE "a"]

FloodKinds == {"plain", "lines", "bad", "blank"}

\* the floods of which a read leaves next to nothing in the driver's buffers
ShortLivedFloods == {"bad", "blank"}

\* the device sends ReadCeiling bytes or one more before the driver reads
DeviceFlood(n, kind) ==
    /\ ~raised
    /\ serial # 0
    /\ pending = << >>
    /\ floods < MaxFloods
    /\ floods' = floods + 1
    /\ pending' = Flood(n, kind)
    /\ UNCHANGED << serial, read_timer, write_timer, read_buffer, read_queue,
                    write_queue, failed, reactor_timers, sample_wake, pc,
                    raised, wire, discarded, console, shutdowns, nextId,
                    opens, stream, last,
                    last_debug_timestamp, last_debug_message >>

----------------------------------------------------------------------------
(* The driver under the reactor, the host and the device *)

\* The device is silent: the connection's life and the write side.  The
\* Read Pump reads nothing here; its ticks are taken at time 0
Next ==
    \/ \E t \in Times, ok \in BOOLEAN : SamplePLA(t, ok)
    \/ \E ok \in BOOLEAN : HandleConnect(ok)
    \/ \E c \in BOOLEAN : HandleDisconnect(c)
    \/ \E c \in BOOLEAN : HandleShutdown(c)
    \/ \E t \in Times, f \in 0..Len(write_queue), c \in BOOLEAN :
          RunWrite(t, f, c)
    \/ \E e \in BOOLEAN, c \in BOOLEAN : RunRead(0, e, 0, c)
    \/ \E m \in ExternalMessages : Enqueue(m)

Spec == Init /\ [][Next]_vars

\* The device sends byte by byte: the read side
ReadNext ==
    \/ \E ok \in BOOLEAN : HandleConnect(ok)
    \/ \E c \in BOOLEAN : HandleShutdown(c)
    \/ \E t \in Times, e \in BOOLEAN, k \in SizeChoices, c \in BOOLEAN :
          RunRead(t, e, k, c) /\ ReadAllowed
    \/ \E b \in DeviceBytes : DeviceSend(b)

ReadSpec == Init /\ [][ReadNext]_vars

\* the Read Pump goes round its loop again
ReadLoopStep ==
    \E e \in BOOLEAN, k \in SizeChoices, c \in BOOLEAN :
        ReadLoop(e, k, c) /\ ReadAllowed

\* The device floods: reads of ReadCeiling bytes and of one more; and it
\* sends on, byte by byte, while the Read Pump is in its loop
OverflowNext ==
    \/ \E ok \in BOOLEAN : HandleConnect(ok)
    \/ \E c \in BOOLEAN : HandleShutdown(c)
    \/ \E t \in Times, e \in BOOLEAN, k \in SizeChoices, c \in BOOLEAN :
          RunRead(t, e, k, c) /\ ReadAllowed
    \/ ReadLoopStep
    \/ \E n \in {ReadCeiling, ReadCeiling + 1}, kind \in FloodKinds :
          DeviceFlood(n, kind)
    \/ \E b \in DeviceBytes : pc = "read_loop" /\ DeviceSend(b)

OverflowSpec == Init /\ [][OverflowNext]_vars

\* every sequence of at most n queued messages
RECURSIVE MessageSeqs(_)
MessageSeqs(n) ==
    IF n = 0 THEN {<< >>}
    ELSE LET shorter == MessageSeqs(n - 1)
         IN  shorter
             \cup {Append(ms, m) : ms \in shorter, m \in QueuedMessages}

\* the Outbound Queue holding the messages ms, appended on the first handle
Tagged(ms) == [i \in 1..Len(ms) |-> [msg |-> ms[i], id |-> i, enq |-> 1]]

\* Both pumps: the driver has connected and callers have queued messages;
\* the device floods, between callbacks and while the Read Pump is in its
\* loop
PumpsInit ==
    /\ serial = 1
    /\ opens = 1
    /\ read_timer = "timer"
    /\ write_timer = "timer"
    /\ read_buffer = << >>
    /\ read_queue = << >>
    /\ \E ms \in MessageSeqs(MaxQueue) :
           write_queue = Tagged(ms) /\ nextId = Len(ms) + 1
    /\ failed = 0
    /\ reactor_timers = [read |-> 1, write |-> 1]
    /\ sample_wake = "armed"
    /\ pc = "idle"
    /\ stream = << >>
    /\ pending = << >>
    /\ raised = FALSE
    /\ wire = << >>
    /\ discarded = {}
    /\ console = << >>
    /\ shutdowns = << >>
    /\ floods = 0
    /\ last_debug_timestamp = 0
    /\ last_debug_message = << >>
    /\ last = [op |-> "connect", evt |-> 0, ret |-> NoReturn, open |-> "ok",
               close |-> "none", again |-> FALSE]

PumpsNext ==
    \/ \E e \in BOOLEAN, k \in SizeChoices, c \in BOOLEAN :
          RunRead(0, e, k, c) /\ ReadAllowed
    \/ ReadLoopStep
    \/ \E kind \in ShortLivedFloods : DeviceFlood(ReadCeiling + 1, kind)
    \/ \E f \in 0..Len(write_queue), c \in BOOLEAN : RunWrite(0, f, c)

\* the Python interpreter runs a callback to its end: a Read Pump that is in
\* its loop makes the next pass
PumpsSpec == PumpsInit /\ [][PumpsNext]_vars /\ WF_vars(ReadLoopStep)

\* every byte sequence of length 1..n
RECURSIVE ByteSeqs(_)
ByteSeqs(n) ==
    IF n = 0 THEN {}
    ELSE LET shorter == ByteSeqs(n - 1)
         IN  {<< b >> : b \in Bytes} \cup shorter
             \cup {Append(bs, b) : bs \in shorter, b \in Bytes}

\* The Line Framer: the driver has just connected and the device has sent
\* the whole of a byte stream, which the Read Pump reads in any chunking
FramerInit ==
    /\ serial = 1
    /\ opens = 1
    /\ read_timer = "timer"
    /\ write_timer = "timer"
    /\ read_buffer = << >>
    /\ read_queue = << >>
    /\ write_queue = << >>
    /\ failed = 0
    /\ reactor_timers = [read |-> 1, write |-> 1]
    /\ sample_wake = "armed"
    /\ pc = "idle"
    /\ stream \in ByteSeqs(MaxStream)
    /\ pending = stream
    /\ raised = FALSE
    /\ wire = << >>
    /\ discarded = {}
    /\ console = << >>
    /\ shutdowns = << >>
    /\ nextId = 1
    /\ floods = 0
    /\ last_debug_timestamp = 0
    /\ last_debug_message = << >>
    /\ last = [op |-> "connect", evt |-> 0, ret |-> NoReturn, open |-> "ok",
               close |-> "none", again |-> FALSE]

FramerNext ==
    \E t \in Times, k \in SizeChoices : RunRead(t, FALSE, k, FALSE)

FramerSpec == FramerInit /\ [][FramerNext]_vars

----------------------------------------------------------------------------
(* The Poll Driver and the failure threshold: C1, C2, C3 *)

LostCount == Cardinality({i \in 1..Len(shutdowns) : shutdowns[i] = LostMessage})

\* C1: once the Poll Driver has taken the fatal path (5 consecutive failed
\* connects, shutdown request, "never again"), every further Poll Driver
\* tick, were one invoked, returns "never again" too; and the last tick
\* returned "never again" only with a shutdown request, else eventtime +
\* the interval.
C1_Claim ==
    /\ sample_wake = "NEVER" => \A t \in Times : SampleReturn(t) = NEVER
    /\ last.op = "sample" =>
           \/ last.ret = NEVER /\ LostCount > 0
           \/ last.ret = At(last.evt + SERIAL_TIMER)

C3_Claim == [][failed >= FailureThreshold => last'.open = "none"]_vars

----------------------------------------------------------------------------
(* The Outbound Queue and the Write Pump: C6, C7 *)

WireInOrder ==
    \A i, j \in 1..Len(wire) : i < j => wire[i].id < wire[j].id

\* C6: what is written to the connection is written in enqueue order, and an
\* entry that was queued behind a failed write is never written to any
\* connection.
C6_OrderKept ==
    /\ WireInOrder
    /\ \A i \in 1..Len(wire) : wire[i].id \notin discarded

\* C6 happens: a write failed with entries queued behind it, and after a
\* reconnect a later entry was written to the new connection
C6_Witness ==
    /\ Cardinality(discarded) >= 2
    /\ \E i \in 1..Len(wire) :
           wire[i].conn = 2 /\ \A d \in discarded : d < wire[i].id

NonEmptyEntry(e) == e.msg # ""

\* C7: a Write Pump invocation in which no write raises leaves the Outbound
\* Queue empty, having written exactly its non-empty entries, in order.
C7_DrainsAll ==
    [][last'.op = "write" /\ last'.close = "none"
          => /\ write_queue' = << >>
             /\ wire' = wire \o OnWire(SelectSeq(write_queue, NonEmptyEntry))]_vars

\* C7 happens: on the only connection ever opened, with no write ever
\* failed, entries 1 and 3 were written and entry 2, an empty one, was not
C7_Witness ==
    /\ last.op = "write" /\ last.close = "none"
    /\ write_queue = << >>
    /\ opens = 1 /\ discarded = {}
    /\ Len(wire) = 2 /\ wire[1].id = 1 /\ wire[2].id = 3

----------------------------------------------------------------------------
(* disconnect: C9, C10 *)

\* C9: every callback in which disconnect() ran ends without an exception,
\* Disconnected and with both pump timers unregistered, however
\* serial.close() ended.
C9_DisconnectCompletes ==
    [][last'.close # "none"
          => /\ ~raised'
             /\ serial' = 0
             /\ read_timer' = "None" /\ write_timer' = "None"
             /\ reactor_timers' = [read |-> 0, write |-> 0]]_vars

\* C9 happens: disconnect() ran on an open handle whose close() raised
C9_Witness ==
    last.op \in DisconnectOps /\ last.close = "raised" /\ serial = 0

----------------------------------------------------------------------------
(* The Line Framer: C4, C5 (under FramerSpec) *)

\* the bytes of the stream the driver has read
Consumed == SubSeq(stream, 1, Len(stream) - Len(pending))

RECURSIVE JoinLines(_)
JoinLines(lines) ==
    IF lines = << >> THEN << >>
    ELSE Head(lines) \o << "\r", "\n" >> \o JoinLines(Tail(lines))

\* C4: the lines produced, each followed by the terminator, followed by the
\* Read Buffer, are the text received: nothing dropped, nothing duplicated.
C4_Claim ==
    ~raised => JoinLines(console) \o read_buffer = decode(Consumed)

\* the lines of a stream that is read in one chunk
OneChunkLines(bs) ==
    LET r == Framer(decode(bs), << >>)
    IN  [i \in 1..Len(r.read_queue) |-> rstrip_nul(r.read_queue[i])]

\* C5: once a stream of UTF-8 text is read, in whatever chunks, the lines
\* produced are the lines it gives when read in one chunk.
C5_Claim ==
    (pending = << >> \/ raised) /\ CanDecode(stream)
        => ~raised /\ console = OneChunkLines(stream)

----------------------------------------------------------------------------
(* The read ceiling: C8 (under OverflowSpec) *)

\* C8: a read of more than 1000 bytes issues the buffer-overflow shutdown
\* request, whatever the bytes are; a read of 1000 bytes or fewer does not.
C8_Claim ==
    [][last'.op = "read" /\ last'.close = "none"
          /\ Len(pending') < Len(pending)
          => IF Len(pending) - Len(pending') > ReadCeiling
             THEN shutdowns' = Append(shutdowns, OverflowMessage)
             ELSE shutdowns' = shutdowns]_vars

----------------------------------------------------------------------------
(* What a disconnect leaves behind: C11 (under ReadSpec) *)

\* C11: when a callback in which disconnect() ran is over, the Read Buffer,
\* the Inbound Queue and the Outbound Queue are empty (so that no partial
\* line of the old connection is prepended to the first line of the next).
C11_Claim ==
    last.close # "none"
        => read_buffer = << >> /\ read_queue = << >> /\ write_queue = << >>

----------------------------------------------------------------------------
(* The status query: C12 (under ReadSpec) *)

\* C12: once a line has been forwarded to the console, get_status reports
\* the line forwarded last as the last message; and the reported timestamp
\* changes only in a callback that forwarded a line.
C12_Claim ==
    /\ [](console # << >>
            => get_status.last_debug_message = console[Len(console)])
    /\ [][get_status.last_debug_timestamp' # get_status.last_debug_timestamp
            => console' # console]_vars

----------------------------------------------------------------------------
(* connect while Connected: C13 *)

\* C13: the on-connect notification, taken while Connected, changes none of
\* the serial handle, the failure counter, the two queues, the Read Buffer
\* and the timers, and registers no second pair of pump timers.
C13_ConnectedNoOp ==
    [][serial # 0 /\ last'.op = "connect"
          => /\ UNCHANGED << serial, opens, failed, write_queue, read_queue,
                             read_buffer, read_timer, write_timer,
                             reactor_timers >>
             /\ reactor_timers' = [read |-> 1, write |-> 1]]_vars

\* C13 happens: the notification came while Connected, with entries waiting
\* in the Outbound Queue
C13_Witness ==
    last.op = "connect" /\ last.open = "none" /\ serial # 0
        /\ write_queue # << >>

----------------------------------------------------------------------------
(* Recovery from an I/O failure in a pump: C14 *)

PumpOps == {"read", "write"}

\* the last callback was a pump in which an I/O exception led to disconnect()
PumpFailed(l) == l.op \in PumpOps /\ l.close # "none"

\* C14: a pump invocation in which an I/O exception occurred returns its
\* next deadline with the driver Disconnected and the failure counter as it
\* was; and a Poll Driver tick that comes next attempts to open the port: it
\* issues no shutdown request and does not return "never again".
C14_RecoversFromScratch ==
    [][/\ PumpFailed(last')
            => /\ serial' = 0
               /\ failed' = failed
               /\ last'.ret = At(last'.evt + SERIAL_TIMER)
       /\ PumpFailed(last) /\ last'.op = "sample"
            => /\ last'.open # "none"
               /\ last'.ret = At(last'.evt + SERIAL_TIMER)
               /\ shutdowns' = shutdowns]_vars

\* C14 happens: a write failed on the first handle, and a Poll Driver tick
\* has opened the second
C14_Witness ==
    /\ last.op = "sample" /\ last.open = "ok"
    /\ serial = 2 /\ failed = 0
    /\ discarded # {}

----------------------------------------------------------------------------
(* The Read Pump's loop: C15 (under FramerSpec) *)

\* C15: a Read Pump invocation that returns without an I/O failure made its
\* last availability check with no bytes waiting.
C15_Claim ==
    [][last'.op = "read" /\ last'.ret # NoReturn /\ last'.close = "none"
          => pending = << >>]_vars

----------------------------------------------------------------------------
(* The pump timers and the connection: C16 *)

\* the number of timers the reactor holds when the handle is h
TimersFor(h) == IF h # 0 THEN 1 ELSE 0

\* the pump timers are registered exactly when Connected, one of each kind
TimersMatch ==
    /\ reactor_timers = [read |-> TimersFor(serial),
                         write |-> TimersFor(serial)]
    /\ read_timer = "timer" <=> serial # 0
    /\ write_timer = "timer" <=> serial # 0

\* C16: whenever no callback is running, the Read Pump and Write Pump timers
\* are registered exactly when the driver is Connected, one of each kind; and
\* a pump is invoked only while Connected, also after a pump that called
\* disconnect() has returned its next deadline.
C16_TimersFollowConnection ==
    /\ [](pc = "idle" => TimersMatch)
    /\ [][last'.op \in PumpOps => serial # 0]_vars

\* C16 happens: a pump called disconnect() in its own invocation and returned
\* a next deadline, and the reactor holds no pump timer
C16_Witness ==
    /\ PumpFailed(last) /\ last.ret = At(last.evt + SERIAL_TIMER)
    /\ reactor_timers = [read |-> 0, write |-> 0]
    /\ serial = 0 /\ opens >= 1

----------------------------------------------------------------------------
(* The Line Consumer: C17 (under OverflowSpec) *)

\* C17: every line the framer has pushed to the Inbound Queue is forwarded
\* by the Read Pump invocation that framed it: whenever no Read Pump
\* invocation is under way, the Inbound Queue is empty.
C17_Claim == pc = "idle" => read_queue = << >>

----------------------------------------------------------------------------
(* Termination of the pumps: C18 (under PumpsSpec) *)

\* the drain loop of the Write Pump ends within one pass per entry, whichever
\* write fails: with the queue empty, or at the first write that raised
WriteDrainEnds ==
    \A f \in 0..Len(write_queue) :
        LET r == Drain(write_queue, << >>, 1, f)
        IN  /\ Len(r.queue) + Len(r.sent) <= Len(write_queue)
            /\ r.error \/ r.queue = << >>

----------------------------------------------------------------------------
(* The failure counter and the connection: C19 *)

\* the step is a connect attempt: _init_PLA_SEAR ran in it
ConnectAttempt == last'.open \in {"ok", "failed"}

\* C19: while Connected the failure counter is 0; the counter changes only in
\* a connect attempt made while Disconnected, by plus one when the open
\* failed and to 0 when it succeeded; disconnect(), the pumps and the
\* Connected branch of the Poll Driver leave it unchanged.
C19_CounterFollowsConnect ==
    /\ [](serial # 0 => failed = 0)
    /\ [][failed' # failed => serial = 0 /\ ConnectAttempt]_vars
    /\ [][last'.open = "failed" => failed' = failed + 1 /\ serial' = 0]_vars
    /\ [][last'.open = "ok" => failed' = 0 /\ serial' # 0]_vars
    /\ [][\/ last'.op \in DisconnectOps \cup PumpOps
          \/ last'.op = "sample" /\ serial # 0
            => failed' = failed]_vars

\* C19 happens: the counter had reached the threshold (the Poll Driver took
\* its fatal path), and a later connect attempt succeeded and reset it
C19_Witness ==
    /\ serial # 0 /\ failed = 0
    /\ LostCount = 1
    /\ last.open = "ok"

----------------------------------------------------------------------------
(* The disconnect sentinel stays off the wire: C20 *)

\* C20: no string that disconnect() appended to the Outbound Queue, and no
\* entry appended while Disconnected, is ever written to a connection: a
\* call of disconnect() leaves the handle closed and the Write Pump
\* unregistered, and a successful connect leaves the Outbound Queue empty.
C20_SentinelNeverSent ==
    /\ [](\A i \in 1..Len(wire) :
            wire[i].msg # DisconnectMessage /\ wire[i].enq # 0)
    /\ [][last'.close # "none"
            => serial' = 0 /\ reactor_timers'.write = 0]_vars
    /\ [][last'.open = "ok" => write_queue' = << >>]_vars

\* C20 happens: a failed write left the sentinel in the queue, the driver
\* connected again, and the Write Pump has written to the new connection
C20_Witness ==
    /\ discarded # {}
    /\ last.op = "write"
    /\ \E i \in 1..Len(wire) : wire[i].conn = 2

=============================================================================
